---- MODULE Spec2Model ----
(***************************************************************************)
(* Colour-evolution / rescaling pipeline of grblc.                         *)
(*                                                                         *)
(* Two code paths of the pipeline are modelled:                            *)
(*   Spec        lightcurve.rescaleGRB of grblc/evolution/lightcurve.py,   *)
(*               the monolithic aggregator / matcher / regressor /         *)
(*               rescaler;                                                 *)
(*   SpecRescale Lightcurve.colorevolGRB / Lightcurve.rescaleGRB of        *)
(*               grblc/lightcurve.py with _rescaleGRB of                   *)
(*               grblc/evolution/rescale.py.                               *)
(*                                                                         *)
(* SpecOutlier is OutlierPlot of fitting/outlier.py, whose positions stay   *)
(* 0-based as in the code (they are taken modulo numpts).  SpecSearch is    *)
(* getArticles of adsgrb/search.py with its worker threads.                *)
(*                                                                         *)
(* Numbers are integers.  Times are seconds; magnitudes and errors are in  *)
(* an arbitrary fixed unit.  The 2.5% test  |a-b| <= a*0.025  is written   *)
(* |a-b|*1000 <= a*25.  Where the code takes a square root the model keeps *)
(* the radicand (field errsq).  Python's 0-based positions are 1-based.    *)
(***************************************************************************)
EXTENDS Integers, Sequences, FiniteSets, TLC

\* ------------------------------------------------------------- bounds
\* longest observation table drawn over every band, time and magnitude
MaxObs == 3
\* longest observation table drawn over two bands and one magnitude
MaxLong == 6
\* most points of the file given to OutlierPlot
MaxPts == 2
\* longest undo queue of OutlierPlot
MaxQueue == 3
\* longest list of papers given to getArticles
MaxPapers == 3

\* ---------------------------------------------------------- constants
\* 0.025 = TimeFracNum / TimeFracDen
TimeFracNum == 25
TimeFracDen == 1000
\* fewest samples for which the straight line is fitted
MinFitPoints == 3
\* |slope| < 0.1, in hundredths
SlopeLimit == 10
\* threads = min(30, len(papers))
MaxWorkers == 30

Bands == {"R", "V", "B"}
Times == {39, 40, 41}
Mags == {10, 13}
Errs == {1}

\* what lmfit may return for the slope and its standard error, in hundredths;
\* stderr is << e >>, or << >> for lmfit's None (no uncertainty estimated)
Fits == { [slope |-> 5, stderr |-> << 1 >>], [slope |-> 50, stderr |-> << 20 >>],
          [slope |-> 50, stderr |-> << 1 >>], [slope |-> 50, stderr |-> << >>] }

VARIABLES
    light,              \* self.df with self.xdata, self.ydata, self.yerr, self.band
    rescale_band,       \* the argument of rescaleGRB
    pc,                 \* where rescaleGRB stands
    err,                \* the exception that ended the run, "" when none
    occur,              \* light['band'].value_counts()
    rescale_filter,
    timediff,           \* the list timediff of each pass j of the matching loop
    scalingfactorslist,
    finalevolutionlist,
    rescale_df,
    filters,
    rescale_slopes_df,
    linear_fit,         \* the last linear_fit, NoFit before any
    \* Lightcurve of grblc/lightcurve.py and _rescaleGRB
    file,               \* the rows read_data gives for self.path
    arrays,             \* self.xdata, self.ydata, self.yerr, self.band, ...
    df,                 \* self.df; the local df of _set_data while it runs
    chosenfilter,       \* the argument of the last colorevolGRB call, "" before any
    output_colorevol,   \* self.output_colorevol; its frame is the one _rescaleGRB fills
    remove_duplicate,   \* the argument of rescaleGRB
    pcR,                \* where the Lightcurve call stands
    errR,               \* the exception that ended it, "" when none
    rr,                 \* the row the loop of _rescaleGRB is at
    magoverlapcheck,    \* the local of _rescaleGRB: << >> while unbound, else << v >>
    resc_mag_df,        \* the frame _rescaleGRB returns
    \* OutlierPlot of fitting/outlier.py
    numpts,             \* self.numpts, 0 while no OutlierPlot is made
    accepted,           \* self.accepted, by its keys
    rejected,           \* self.rejected, by its keys
    queue,              \* self.queue: the entries [job, currpt, prevpt]
    currpt,
    prevpt,
    saved,              \* the keys in the accepted and the rejected file; {} for no file
    before,             \* history: the key handled last and the piles before it
    \* getArticles of adsgrb/search.py
    papers,             \* finds["articlelist"], each paper by the outcome of its retrieval
    gcn,                \* the bibcodes of the papers are those of GCN circulars
    threading,          \* the argument of getArticles
    articlelist,        \* the list made at line 30, which getArticle appends to
    futures,            \* the tasks given to the executor, one per paper
    comprehension,      \* the list the comprehension of line 38 is building
    result,             \* what getArticles returns
    pcS,                \* where getArticles stands
    errS                \* the exception that ended it, "" when none

\* lightcurve.rescaleGRB of grblc/evolution/lightcurve.py
varsE == << light, rescale_band, pc, err, occur, rescale_filter, timediff,
            scalingfactorslist, finalevolutionlist, rescale_df, filters,
            rescale_slopes_df, linear_fit >>

\* Lightcurve and _rescaleGRB
varsR == << file, arrays, df, chosenfilter, output_colorevol, remove_duplicate, pcR, errR, rr,
            magoverlapcheck, resc_mag_df >>

\* OutlierPlot
varsO == << numpts, accepted, rejected, queue, currpt, prevpt, saved, before >>

\* getArticles
varsS == << papers, gcn, threading, articlelist, futures, comprehension, result, pcS, errS >>

vars == << varsE, varsR, varsO, varsS >>

\* ------------------------------------------------------------ helpers
Abs(x) == IF x < 0 THEN -x ELSE x

Obs == [band : Bands, time_sec : Times, mag : Mags, mag_err : Errs]

\* read_data hands over the rows sorted by time
SortedByTime(t) == \A i, j \in DOMAIN t : i < j => t[i].time_sec <= t[j].time_sec

NarrowObs == [band : {"R", "V"}, time_sec : Times, mag : {10}, mag_err : Errs]

\* the tables set_data can leave in self.df: non-empty, no mag_err = 0
Tables ==
    UNION ( { { t \in [1..n -> Obs] : SortedByTime(t) } : n \in 1..MaxObs }
            \cup { { t \in [1..n -> NarrowObs] : SortedByTime(t) } : n \in 1..MaxLong } )

BandsOf(t) == { t[i].band : i \in DOMAIN t }

Count(t, b) == Cardinality({ i \in DOMAIN t : t[i].band = b })

\* position of the first row of band b
FirstRow(t, b) == CHOOSE i \in DOMAIN t :
                    /\ t[i].band = b
                    /\ \A k \in DOMAIN t : t[k].band = b => i <= k

Perms(S) == { f \in [1..Cardinality(S) -> S] :
                \A i, j \in 1..Cardinality(S) : i # j => f[i] # f[j] }

\* value_counts with the counts ascending
ValueCountsAscending(t) ==
    { [j \in DOMAIN o |-> [band |-> o[j], n |-> Count(t, o[j])]] :
        o \in { p \in Perms(BandsOf(t)) :
                  \A i, j \in DOMAIN p : i < j => Count(t, p[i]) <= Count(t, p[j]) } }

\* Series.value_counts(): one entry per band, counts descending.  The sort is
\* pandas' default quicksort, which promises no order among equal counts.
ValueCounts(t) ==
    { [j \in DOMAIN o |-> [band |-> o[j], n |-> Count(t, o[j])]] :
        o \in { p \in Perms(BandsOf(t)) :
                  \A i, j \in DOMAIN p : i < j => Count(t, p[i]) >= Count(t, p[j]) } }

\* light.loc[light['band'] == b]
RowsOf(t, b) == SelectSeq(t, LAMBDA r : r.band = b)

\* ------------------------------------------------- Pairwise Matcher
\* the pairs [p1, p2] in the order of the comprehension: p1 outer, p2 inner
AllPairs(n, m) ==
    [k \in 1..(n * m) |-> << ((k - 1) \div m) + 1, ((k - 1) % m) + 1 >>]

\* the 2.5% taken of the other band's time
CloseOfObservation(tr, to) == Abs(tr - to) * TimeFracDen <= to * TimeFracNum

\* np.abs(rescale_x[p1]-sub_x[p2]) <= rescale_x[p1]*0.025
Close(tr, to) == Abs(tr - to) * TimeFracDen <= tr * TimeFracNum

TimeDiff(rs, ss) ==
    SelectSeq(AllPairs(Len(rs), Len(ss)),
              LAMBDA p : Close(rs[p[1]].time_sec, ss[p[2]].time_sec))

\* one rescaling-factor sample; the code's sf2[3] is the square root of errsq
Sf2(r, s) == [time  |-> s.time_sec,
              fact  |-> r.mag - s.mag,
              dist  |-> Abs(r.time_sec - s.time_sec),
              errsq |-> (r.mag_err * r.mag_err) + (s.mag_err * s.mag_err)]

Samples(rs, ss) ==
    LET td == TimeDiff(rs, ss)
    IN  [i \in DOMAIN td |-> Sf2(rs[td[i][1]], ss[td[i][2]])]

\* the entry of the reference band, "since the most common filter is not scaled"
ZeroSample == [time |-> 0, fact |-> 0, dist |-> 0]

\* ------------------------------------------------- de-duplication
TimesOf(sf) == { sf[x].time : x \in DOMAIN sf }

SupplList(sf, tt) == SelectSeq(sf, LAMBDA el : el.time = tt)

\* suppllistdist.index(min(suppllistdist)): the first position of the minimum
MinDistPos(s) ==
    CHOOSE i \in DOMAIN s :
        /\ \A k \in DOMAIN s : s[i].dist <= s[k].dist
        /\ \A k \in DOMAIN s : k < i => s[k].dist > s[i].dist

RECURSIVE AscendingSeq(_)
AscendingSeq(S) ==
    IF S = {} THEN << >>
    ELSE LET m == CHOOSE x \in S : \A y \in S : x <= y
         IN  << m >> \o AscendingSeq(S \ {m})

\* no sample dropped
RetainedAll(sf) == sf

\* the samples one entry fl keeps: for each time of the set, the nearest one.
\* The set is walked in an order of its own; the sort that follows orders the
\* result by time, so the kept samples are given here in ascending time.
Retained(sf) ==
    LET ts == AscendingSeq(TimesOf(sf))
    IN  [k \in DOMAIN ts |->
            LET sl == SupplList(sf, ts[k]) IN sl[MinDistPos(sl)]]

RECURSIVE EvolutionRescalingFactor(_)
EvolutionRescalingFactor(sfl) ==
    IF sfl = << >> THEN << >>
    ELSE LET fl == Head(sfl)
             kept == Retained(fl.sf)
         IN  [k \in DOMAIN kept |-> [band |-> fl.band, occ |-> fl.occ, sf |-> kept[k]]]
             \o EvolutionRescalingFactor(Tail(sfl))

\* sorted(..., key = time): Python's sort is stable
RECURSIVE SortedByKey(_)
SortedByKey(s) ==
    IF s = << >> THEN << >>
    ELSE LET i == CHOOSE i \in DOMAIN s :
                    /\ \A k \in DOMAIN s : s[i].sf.time <= s[k].sf.time
                    /\ \A k \in DOMAIN s : k < i => s[k].sf.time > s[i].sf.time
         IN  << s[i] >> \o SortedByKey(SubSeq(s, 1, i - 1) \o SubSeq(s, i + 1, Len(s)))

\* rescale_df: the entries of every band but the reference band
RescaleDf(fel, ref) ==
    LET rows == SelectSeq(fel, LAMBDA jj : jj.band # ref)
    IN  [k \in DOMAIN rows |->
            [band |-> rows[k].band, occur_band |-> rows[k].occ,
             time_sec |-> rows[k].sf.time, rescale_fact |-> rows[k].sf.fact,
             rescale_fact_errsq |-> rows[k].sf.errsq]]

NoFit == [band |-> "", slope |-> 0, stderr |-> << >>]

\* ------------------------------------- Lightcurve: colorevolGRB, rescaleGRB
\* a cell holding "-" ("not estimated") or "" is << >>; one holding v is << v >>
Dash == << >>

\* the table as the analysis groups it: by band_appx, the original name kept
Appx(t) ==
    [k \in DOMAIN t |->
        [band |-> t[k].band_appx, band_original |-> t[k].band,
         time_sec |-> t[k].time_sec, mag |-> t[k].mag, mag_err |-> t[k].mag_err,
         system |-> t[k].system, telescope |-> t[k].telescope,
         extcorr |-> t[k].extcorr, source |-> t[k].source, flag |-> t[k].flag]]

NoOutput == [set |-> FALSE, filterforrescaling |-> "", nocolorevolutionlist |-> {},
             colorevolutionlist |-> {}, rescaled_columns |-> FALSE, light |-> << >>]

\* before _set_data: no attribute set
NoArrays == [xdata |-> << >>, ydata |-> << >>, yerr |-> << >>,
             band_original |-> << >>, band |-> << >>, system |-> << >>,
             telescope |-> << >>, extcorr |-> << >>, source |-> << >>,
             flag |-> << >>]

IdleR ==
    /\ file = << >>
    /\ arrays = NoArrays
    /\ df = << >>
    /\ chosenfilter = ""
    /\ output_colorevol = NoOutput
    /\ remove_duplicate = FALSE
    /\ pcR = "idle"
    /\ errR = ""
    /\ rr = 0
    /\ magoverlapcheck = << >>
    /\ resc_mag_df = << >>


NoKey == [key |-> "", accepted |-> {}, rejected |-> {}]

\* no OutlierPlot made
IdleO ==
    /\ numpts = 0
    /\ accepted = {}
    /\ rejected = {}
    /\ queue = << >>
    /\ currpt = 0
    /\ prevpt = -1
    /\ saved = [accepted |-> {}, rejected |-> {}]
    /\ before = NoKey

\* nothing returned; what is returned is the message of line 28, the items
\* joined into a string, or the list of the items
NoResult == [kind |-> "", items |-> << >>]

\* getArticles not called
IdleS ==
    /\ papers = << >>
    /\ gcn = FALSE
    /\ threading = FALSE
    /\ articlelist = << >>
    /\ futures = << >>
    /\ comprehension = << >>
    /\ result = NoResult
    /\ pcS = "idle"
    /\ errS = ""

\* ---- _colorevolGRB (grblc/evolution/colorevol.py), as the specification
\* ---- describes the aggregator, the matcher and the regressor
Classes == {"no_color_evolution", "color_evolution", "insufficient_data"}

\* weighted mean offset of a band and its standard error
WeightedMeans == { [mean |-> << 2 >>, err |-> << 3 >>],
                   [mean |-> << -3 >>, err |-> << 2 >>] }

\* the band with the highest count, the first encountered among equals
MostNumerous(t) ==
    CHOOSE b \in BandsOf(t) :
        \A c \in BandsOf(t) :
            \/ Count(t, b) > Count(t, c)
            \/ Count(t, b) = Count(t, c) /\ FirstRow(t, b) <= FirstRow(t, c)

\* the reference rows within 2.5% of row k
Admitted(t, ref, k) ==
    { i \in DOMAIN t : t[i].band = ref /\ Close(t[i].time_sec, t[k].time_sec) }

\* |t_i - t_k| / t_i <= |t_j - t_k| / t_j
FractionLeq(t, k, i, j) ==
    Abs(t[i].time_sec - t[k].time_sec) * t[j].time_sec
        <= Abs(t[j].time_sec - t[k].time_sec) * t[i].time_sec

\* the admitted reference row of least time_fraction_difference, the first
\* encountered among equals
MatchedRef(t, ref, k) ==
    CHOOSE i \in Admitted(t, ref, k) :
        \A j \in Admitted(t, ref, k) :
            /\ FractionLeq(t, k, i, j)
            /\ FractionLeq(t, k, j, i) => i <= j

HasMatch(t, ref, k) == t[k].band # ref /\ Admitted(t, ref, k) # {}

\* what the regressor may report for the non-reference bands: a band with no
\* sample is insufficient_data and has no weighted mean; a band with samples
\* has a weighted mean and one of the three classes (the thresholds that
\* decide the class are the regressor's and are not read by _rescaleGRB)
NoSamples == [class |-> "insufficient_data", mean |-> Dash, err |-> Dash]

WithSamples == { [class |-> c, mean |-> w.mean, err |-> w.err] :
                    c \in Classes, w \in WeightedMeans }

Verdicts(t, ref) ==
    { v \in [BandsOf(t) \ {ref} -> WithSamples \cup {NoSamples}] :
        \A b \in BandsOf(t) \ {ref} :
            IF \E k \in DOMAIN t : t[k].band = b /\ HasMatch(t, ref, k)
            THEN v[b] \in WithSamples
            ELSE v[b] = NoSamples }

\* the frame `light` that colorevolGRB returns (its 8th output); t is the
\* table grouped by band_appx
ColorevolLight(t, ref, v) ==
    [k \in DOMAIN t |->
        LET m == HasMatch(t, ref, k)
            i == MatchedRef(t, ref, k)
        IN  [idx |-> k,
             time_sec |-> t[k].time_sec,
             mag |-> t[k].mag,
             mag_err |-> t[k].mag_err,
             band |-> t[k].band_original,
             system |-> t[k].system,
             telescope |-> t[k].telescope,
             extcorr |-> t[k].extcorr,
             source |-> t[k].source,
             flag |-> t[k].flag,
             band_appx |-> t[k].band,
             band_appx_occurrences |-> Count(t, t[k].band),
             mag_chosenfilter |-> IF m THEN << t[i].mag >> ELSE Dash,
             mag_chosenfilter_err |-> IF m THEN << t[i].mag_err >> ELSE Dash,
             resc_fact |-> IF m THEN v[t[k].band].mean ELSE Dash,
             resc_fact_err |-> IF m THEN v[t[k].band].err ELSE Dash,
             time_difference_percentage |->
                 IF m THEN << Abs(t[i].time_sec - t[k].time_sec), t[i].time_sec >>
                 ELSE Dash,
             mag_rescaled |-> << >>,
             mag_rescaled_err |-> << >>]]

\* the output held before the call left in place
ColorevolOutputStale(t, ref, v) ==
    IF output_colorevol.set THEN output_colorevol
    ELSE [set |-> TRUE,
          filterforrescaling |-> ref,
          nocolorevolutionlist |-> { b \in DOMAIN v : v[b].class = "no_color_evolution" },
          colorevolutionlist |-> { b \in DOMAIN v : v[b].class = "color_evolution" },
          rescaled_columns |-> FALSE,
          light |-> ColorevolLight(t, ref, v)]

\* what _colorevolGRB returns, as far as _rescaleGRB reads it
ColorevolOutput(t, ref, v) ==
    [set |-> TRUE,
     filterforrescaling |-> ref,
     nocolorevolutionlist |-> { b \in DOMAIN v : v[b].class = "no_color_evolution" },
     colorevolutionlist |-> { b \in DOMAIN v : v[b].class = "color_evolution" },
     rescaled_columns |-> FALSE,
     light |-> ColorevolLight(t, ref, v)]

\* ---- _rescaleGRB (grblc/evolution/rescale.py)
Max(a, b) == IF a >= b THEN a ELSE b

Overlap(mag1lower, mag1upper, mag2lower, mag2upper) ==
    IF mag1upper < mag2lower \/ mag1lower > mag2upper
    THEN 0
    ELSE Max(mag1upper, mag2upper)

\* the two cells swapped
PassThroughSwapped(row) ==
    [row EXCEPT !.mag_rescaled = << row.mag_err >>, !.mag_rescaled_err = << row.mag >>]

\* lines 145-146, 154-155, 165-166
PassThrough(row) ==
    [row EXCEPT !.mag_rescaled = << row.mag >>, !.mag_rescaled_err = << row.mag_err >>]

\* the offset added to the stored magnitude as well
RescaledInPlace(row) ==
    [row EXCEPT !.mag = row.mag + row.resc_fact[1],
                !.mag_rescaled = << row.mag + row.resc_fact[1] >>,
                !.mag_rescaled_err = row.resc_fact_err]

\* the offset subtracted, the error left as it was
RescaledWrong(row) ==
    [row EXCEPT !.mag_rescaled = << row.mag - row.resc_fact[1] >>,
                !.mag_rescaled_err = << row.mag_err >>]

\* lines 160-161
Rescaled(row) ==
    [row EXCEPT !.mag_rescaled = << row.mag + row.resc_fact[1] >>,
                !.mag_rescaled_err = row.resc_fact_err]

Unmatched(row) == row.mag_chosenfilter = Dash \/ row.mag_chosenfilter_err = Dash

\* lines 144-151: magoverlapcheck after the first if of the pass
OverlapCheck(row, moc) ==
    IF Unmatched(row) THEN moc
    ELSE << Overlap(row.mag - row.mag_err, row.mag + row.mag_err,
                    row.mag_chosenfilter[1] - row.mag_chosenfilter_err[1],
                    row.mag_chosenfilter[1] + row.mag_chosenfilter_err[1]) >>

WithinWindow(tdp) == tdp[1] * TimeFracDen <= tdp[2] * TimeFracNum

\* the branch without the tests on the two lists of bands
RowOutcomeNoLists(row, moc, oc) ==
    IF row.band_appx = oc.filterforrescaling \/ row.resc_fact = Dash THEN "pass"
    ELSE IF moc = << >> THEN "UnboundLocalError"
    ELSE IF moc[1] # 0 THEN "pass"
    ELSE IF row.time_difference_percentage = Dash THEN "TypeError"
    ELSE IF WithinWindow(row.time_difference_percentage) THEN "rescale"
    ELSE "pass"

\* the branch without the test of resc_fact
RowOutcomeNoDash(row, moc, oc) ==
    IF row.band_appx = oc.filterforrescaling THEN "pass"
    ELSE IF moc = << >> THEN "UnboundLocalError"
    ELSE IF moc[1] # 0 \/ row.band_appx \in oc.colorevolutionlist THEN "pass"
    ELSE IF row.time_difference_percentage = Dash THEN "TypeError"
    ELSE IF /\ WithinWindow(row.time_difference_percentage)
            /\ row.band_appx \in oc.nocolorevolutionlist
         THEN "rescale"
         ELSE "pass"

\* lines 153-166: the branch taken for a row, moc being magoverlapcheck after
\* lines 144-151.  Python evaluates the tests left to right and stops at the
\* first that decides; reading magoverlapcheck while it is unbound raises
\* UnboundLocalError, comparing "-" with 0.025 raises TypeError.
RowOutcome(row, moc, oc) ==
    IF row.band_appx = oc.filterforrescaling \/ row.resc_fact = Dash THEN "pass"
    ELSE IF moc = << >> THEN "UnboundLocalError"
    ELSE IF moc[1] # 0 \/ row.band_appx \in oc.colorevolutionlist THEN "pass"
    ELSE IF row.time_difference_percentage = Dash THEN "TypeError"
    ELSE IF /\ WithinWindow(row.time_difference_percentage)
            /\ row.band_appx \in oc.nocolorevolutionlist
         THEN "rescale"
         ELSE "pass"

\* sort_values ascending
SortValuesAscending(t) ==
    { [k \in DOMAIN t |-> t[p[k]]] :
        p \in { q \in Perms(DOMAIN t) :
                  \A i, j \in DOMAIN t :
                      i < j => t[q[i]].band_appx_occurrences
                                  <= t[q[j]].band_appx_occurrences } }

\* df.sort_values('band_appx_occurrences', ascending=False): pandas' default
\* quicksort, which promises no order among rows of equal key
SortValuesDescending(t) ==
    { [k \in DOMAIN t |-> t[p[k]]] :
        p \in { q \in Perms(DOMAIN t) :
                  \A i, j \in DOMAIN t :
                      i < j => t[q[i]].band_appx_occurrences
                                  >= t[q[j]].band_appx_occurrences } }

\* drop_duplicates(subset='time_sec', keep="first")
DropDuplicates(t) ==
    SelectSeq([k \in DOMAIN t |-> [row |-> t[k], pos |-> k]],
              LAMBDA e : \A k \in DOMAIN t : k < e.pos => t[k].time_sec # e.row.time_sec)

\* the rows left in the order drop_duplicates gives them
KeepOrder(t) == [k \in DOMAIN t |-> t[k].row]

\* sort_values('time_sec', ascending=True) of rows of distinct times
RECURSIVE SortTimeSec(_)
SortTimeSec(t) ==
    IF t = << >> THEN << >>
    ELSE LET i == CHOOSE i \in DOMAIN t :
                    \A k \in DOMAIN t : t[i].row.time_sec <= t[k].row.time_sec
         IN  << t[i].row >> \o SortTimeSec(SubSeq(t, 1, i - 1) \o SubSeq(t, i + 1, Len(t)))

\* _duplicate_remover
DuplicateRemover(t) ==
    { SortTimeSec(DropDuplicates(o)) : o \in SortValuesDescending(t) }

\* the table with band_original taken from the grouping column
RescMagDfAppx(t) ==
    [k \in DOMAIN t |->
        [idx |-> t[k].idx, time_sec |-> t[k].time_sec,
         mag_rescaled |-> t[k].mag_rescaled, mag_err |-> t[k].mag_rescaled_err,
         band_original |-> t[k].band_appx,
         system |-> t[k].system, telescope |-> t[k].telescope,
         extcorr |-> t[k].extcorr, source |-> t[k].source, flag |-> t[k].flag]]

\* lines 253-262; idx is the index of the frame, which the columns carry
RescMagDf(t) ==
    [k \in DOMAIN t |->
        [idx |-> t[k].idx, time_sec |-> t[k].time_sec,
         mag_rescaled |-> t[k].mag_rescaled, mag_err |-> t[k].mag_rescaled_err,
         band_original |-> t[k].band,
         system |-> t[k].system, telescope |-> t[k].telescope,
         extcorr |-> t[k].extcorr, source |-> t[k].source, flag |-> t[k].flag]]

\* ------------------------------------------------------------ actions
Init ==
    /\ light \in Tables
    /\ rescale_band \in {"numerous"} \cup Bands
    /\ pc = "start"
    /\ err = ""
    /\ occur = << >>
    /\ rescale_filter = ""
    /\ timediff = << >>
    /\ scalingfactorslist = << >>
    /\ finalevolutionlist = << >>
    /\ rescale_df = << >>
    /\ filters = {}
    /\ rescale_slopes_df = << >>
    /\ linear_fit = NoFit
    /\ IdleR
    /\ IdleO
    /\ IdleS

Raise(e) == pc' = "error" /\ err' = e

\* the two assertions of rescaleGRB, by their messages
OnlyOnePoint == "AssertionError: Has only one data point."
BandNotPresent == "AssertionError: Rescaling band provided is not present in data!"

\* no band taken for absent
BandAbsentNever(rb, t) == FALSE

\* not (rescale_band == 'numerous' or rescale_band in light_color)
BandAbsent(rb, t) == rb # "numerous" /\ rb \notin BandsOf(t)

\* lines 436-470: the asserts, value_counts, the reference band, the empty lists
Begin ==
    /\ pc = "start"
    /\ IF Len(light) <= 1
       THEN /\ Raise(OnlyOnePoint)
            /\ UNCHANGED << occur, rescale_filter, scalingfactorslist >>
       ELSE IF BandAbsent(rescale_band, light)
       THEN /\ Raise(BandNotPresent)
            /\ UNCHANGED << occur, rescale_filter, scalingfactorslist >>
       ELSE \E o \in ValueCounts(light) :
              LET rf == IF rescale_band = "numerous" THEN o[1].band ELSE rescale_band
              IN  /\ occur' = o
                  /\ rescale_filter' = rf
                  /\ scalingfactorslist' =
                        << [band |-> rf, occ |-> Count(light, rf), sf |-> << ZeroSample >>] >>
                        \o [j \in 1..(Len(o) - 1) |->
                              [band |-> o[j + 1].band, occ |-> o[j + 1].n, sf |-> << >>]]
                  /\ pc' = "match"
                  /\ err' = err
    /\ UNCHANGED << light, rescale_band, timediff, finalevolutionlist, rescale_df,
                    filters, rescale_slopes_df, linear_fit >>
    /\ UNCHANGED << varsR, varsO, varsS >>

\* lines 464-490: every band occur.index[j], j >= 1, against the reference rows
Match ==
    /\ pc = "match"
    /\ LET rs == RowsOf(light, rescale_filter)
       IN  /\ timediff' = [j \in DOMAIN occur |->
                             IF j = 1 THEN << >>
                             ELSE TimeDiff(rs, RowsOf(light, occur[j].band))]
           /\ scalingfactorslist' =
                 [j \in DOMAIN scalingfactorslist |->
                    IF j = 1 THEN scalingfactorslist[j]
                    ELSE [scalingfactorslist[j] EXCEPT
                            !.sf = Samples(rs, RowsOf(light, occur[j].band))]]
    /\ pc' = "dedupe"
    /\ UNCHANGED << light, rescale_band, err, occur, rescale_filter,
                    finalevolutionlist, rescale_df, filters, rescale_slopes_df,
                    linear_fit >>
    /\ UNCHANGED << varsR, varsO, varsS >>

\* lines 492-505
Dedupe ==
    /\ pc = "dedupe"
    /\ finalevolutionlist' = SortedByKey(EvolutionRescalingFactor(scalingfactorslist))
    /\ pc' = "frame"
    /\ UNCHANGED << light, rescale_band, err, occur, rescale_filter, timediff,
                    scalingfactorslist, rescale_df, filters, rescale_slopes_df,
                    linear_fit >>
    /\ UNCHANGED << varsR, varsO, varsS >>

\* lines 507-556: rescale_df, filters, the empty rescale_slopes_df
BuildRescaleDf ==
    /\ pc = "frame"
    /\ LET rdf == RescaleDf(finalevolutionlist, rescale_filter)
           fs == { rdf[k].band : k \in DOMAIN rdf }
       IN  /\ rescale_df' = rdf
           /\ filters' = fs
           /\ rescale_slopes_df' =
                 [b \in fs |-> [slope |-> "", slope_err |-> "", intercept |-> "",
                                inter_err |-> "", comment |-> ""]]
    /\ pc' = "regress"
    /\ UNCHANGED << light, rescale_band, err, occur, rescale_filter, timediff,
                    scalingfactorslist, finalevolutionlist, linear_fit >>
    /\ UNCHANGED << varsR, varsO, varsS >>

\* lines 558-615, the pass for the first band of rescale_slopes_df.index (the
\* order of a Python set).  With 3 samples or more the line is fitted (571-577);
\* then, in either branch, the next statement is wmom(y) (579, 589): wmom has
\* the required parameter yerr, the call raises TypeError, and nothing of the
\* pass is stored.
RegressBand ==
    /\ pc = "regress"
    /\ \E band \in filters :
          LET n == Len(SelectSeq(rescale_df, LAMBDA r : r.band = band))
          IN  IF n >= MinFitPoints
              THEN \E f \in Fits :
                      linear_fit' = [band |-> band, slope |-> f.slope, stderr |-> f.stderr]
              ELSE linear_fit' = linear_fit
    /\ Raise("TypeError")
    /\ UNCHANGED << light, rescale_band, occur, rescale_filter, timediff,
                    scalingfactorslist, finalevolutionlist, rescale_df, filters,
                    rescale_slopes_df >>
    /\ UNCHANGED << varsR, varsO, varsS >>

\* lines 558-699 when rescale_slopes_df has no row: the loops run no pass
RegressNone ==
    /\ pc = "regress"
    /\ filters = {}
    /\ pc' = "rescale"
    /\ UNCHANGED << light, rescale_band, err, occur, rescale_filter, timediff,
                    scalingfactorslist, finalevolutionlist, rescale_df, filters,
                    rescale_slopes_df, linear_fit >>
    /\ UNCHANGED << varsR, varsO, varsS >>

\* lines 701-722: the first pass reads rescale_df['mean'], a column rescale_df
\* does not have (line 515), which raises KeyError
RescaleLoop ==
    /\ pc = "rescale"
    /\ Raise("KeyError")
    /\ UNCHANGED << light, rescale_band, occur, rescale_filter, timediff,
                    scalingfactorslist, finalevolutionlist, rescale_df, filters,
                    rescale_slopes_df, linear_fit >>
    /\ UNCHANGED << varsR, varsO, varsS >>

Next ==
    \/ Begin
    \/ Match
    \/ Dedupe
    \/ BuildRescaleDf
    \/ RegressBand
    \/ RegressNone
    \/ RescaleLoop

Spec == Init /\ [][Next]_vars

\* rows at time zero: read_data drops the rows of negative time, and nothing
\* between the file and the matcher drops a row of time 0
ZeroObs == [band : {"R", "V"}, time_sec : {0, 40}, mag : {10}, mag_err : Errs]

\* set_data on a file with observations at time zero
InitZero ==
    /\ light \in UNION { { t \in [1..n -> ZeroObs] : SortedByTime(t) } : n \in 1..MaxObs }
    /\ rescale_band \in {"numerous"} \cup Bands
    /\ pc = "start"
    /\ err = ""
    /\ occur = << >>
    /\ rescale_filter = ""
    /\ timediff = << >>
    /\ scalingfactorslist = << >>
    /\ finalevolutionlist = << >>
    /\ rescale_df = << >>
    /\ filters = {}
    /\ rescale_slopes_df = << >>
    /\ linear_fit = NoFit
    /\ IdleR
    /\ IdleO
    /\ IdleS

SpecZero == InitZero /\ [][Next]_vars

\* later times, where the 2.5% window holds a reference point on either side
\* of an observation (1/79 < 0.025)
TieObs == [band : {"R", "V"}, time_sec : {79, 80, 81}, mag : Mags, mag_err : Errs]

InitTie ==
    /\ light \in UNION { { t \in [1..n -> TieObs] : SortedByTime(t) } : n \in 1..MaxObs }
    /\ rescale_band \in {"numerous"} \cup Bands
    /\ pc = "start"
    /\ err = ""
    /\ occur = << >>
    /\ rescale_filter = ""
    /\ timediff = << >>
    /\ scalingfactorslist = << >>
    /\ finalevolutionlist = << >>
    /\ rescale_df = << >>
    /\ filters = {}
    /\ rescale_slopes_df = << >>
    /\ linear_fit = NoFit
    /\ IdleR
    /\ IdleO
    /\ IdleS

SpecTie == InitTie /\ [][Next]_vars

\* ------------------------------------------ actions of the Lightcurve
IdleE ==
    /\ light = << >>
    /\ rescale_band = "numerous"
    /\ pc = "idle"
    /\ err = ""
    /\ occur = << >>
    /\ rescale_filter = ""
    /\ timediff = << >>
    /\ scalingfactorslist = << >>
    /\ finalevolutionlist = << >>
    /\ rescale_df = << >>
    /\ filters = {}
    /\ rescale_slopes_df = << >>
    /\ linear_fit = NoFit

\* convert_data: an alias of a band is replaced by the band's canonical name
ConvertData(b) == IF b = "BJ" THEN "B" ELSE b

\* the opaque columns of a row
Metas == { [system |-> "Vega", telescope |-> "T1", extcorr |-> "y",
            source |-> "S1", flag |-> "no"],
           [system |-> "AB", telescope |-> "T2", extcorr |-> "n",
            source |-> "S2", flag |-> "yes"] }

FirstMeta == CHOOSE md \in Metas : md.system = "Vega"

\* a row of self.df, loaded with appx_bands = True (the default)
Row(b, t, m, e, md) ==
    [band |-> b, band_appx |-> ConvertData(b), time_sec |-> t, mag |-> m,
     mag_err |-> e, system |-> md.system, telescope |-> md.telescope,
     extcorr |-> md.extcorr, source |-> md.source, flag |-> md.flag]

\* the row of the file behind a row of self.df
FileRow(r) ==
    [band |-> r.band, time_sec |-> r.time_sec, mag |-> r.mag, mag_err |-> r.mag_err,
     system |-> r.system, telescope |-> r.telescope, extcorr |-> r.extcorr,
     source |-> r.source, flag |-> r.flag]

FileOf(t) == [k \in DOMAIN t |-> FileRow(t[k])]

\* the attributes _set_data fills from the rows it keeps (lines 113-147)
ArraysOf(t) ==
    [xdata |-> [k \in DOMAIN t |-> t[k].time_sec],
     ydata |-> [k \in DOMAIN t |-> t[k].mag],
     yerr |-> [k \in DOMAIN t |-> t[k].mag_err],
     band_original |-> [k \in DOMAIN t |-> t[k].band],
     band |-> [k \in DOMAIN t |-> t[k].band_appx],
     system |-> [k \in DOMAIN t |-> t[k].system],
     telescope |-> [k \in DOMAIN t |-> t[k].telescope],
     extcorr |-> [k \in DOMAIN t |-> t[k].extcorr],
     source |-> [k \in DOMAIN t |-> t[k].source],
     flag |-> [k \in DOMAIN t |-> t[k].flag]]

\* the object after _set_data (remove_outliers = False) has left t in self.df
Loaded(t) == df = t /\ file = FileOf(t) /\ arrays = ArraysOf(t)

\* the rows of self.df: 39 and 40 lie on either side of the 2.5% window
\* (1/40 = 0.025 < 1/39)
ObsR == { Row(b, t, m, e, FirstMeta) :
            b \in Bands, t \in {39, 40}, m \in Mags, e \in Errs }

\* rows of one time, with an alias among the bands and two kinds of metadata
FrameObs == { Row(b, 40, m, e, md) :
                b \in {"R", "BJ", "B"}, m \in Mags, e \in Errs, md \in Metas }

\* the tables _set_data can leave in self.df
InitR ==
    /\ \E t \in UNION { { t \in [1..n -> ObsR] : SortedByTime(t) } : n \in 1..MaxObs } :
          Loaded(t)
    /\ chosenfilter = ""
    /\ output_colorevol = NoOutput
    /\ remove_duplicate = FALSE
    /\ pcR = "idle"
    /\ errR = ""
    /\ rr = 0
    /\ magoverlapcheck = << >>
    /\ resc_mag_df = << >>
    /\ IdleE
    /\ IdleO
    /\ IdleS

RaiseR(e) == pcR' = "error" /\ errR' = e

\* neither list has a band
NoFiltersAtAll(oc) == oc.nocolorevolutionlist = {} /\ oc.colorevolutionlist = {}

\* len(nocolorevolutionlist) == 0
NoFiltersToRescale(oc) == oc.nocolorevolutionlist = {}

\* what colorevolGRB may be given for chosenfilter
ChosenFilters == {"mostnumerous"} \cup Bands

\* the reference band: the most numerous one, or the one the caller names
FilterForRescaling(a, cf) == IF cf = "mostnumerous" THEN MostNumerous(a) ELSE cf

\* Lightcurve.colorevolGRB: self.output_colorevol = _colorevolGRB(self.df, ...);
\* the analysis is run once on an object
ColorevolGRB ==
    /\ pcR = "idle"
    /\ ~output_colorevol.set
    /\ \E cf \in ChosenFilters :
          LET a == Appx(df)
          IN  /\ chosenfilter' = cf
              /\ IF Len(a) <= 1 \/ Cardinality(BandsOf(a)) <= 1
                 THEN RaiseR("InsufficientDataError") /\ UNCHANGED output_colorevol
                 ELSE IF cf # "mostnumerous" /\ cf \notin BandsOf(a)
                 THEN RaiseR("UnknownBandError") /\ UNCHANGED output_colorevol
                 ELSE \E v \in Verdicts(a, FilterForRescaling(a, cf)) :
                         /\ output_colorevol' = ColorevolOutput(a, FilterForRescaling(a, cf), v)
                         /\ UNCHANGED << pcR, errR >>
    /\ UNCHANGED << file, arrays, df, remove_duplicate, rr, magoverlapcheck, resc_mag_df >>
    /\ UNCHANGED << varsE, varsO, varsS >>

\* Lightcurve.rescaleGRB and _rescaleGRB up to line 136: reading an
\* output_colorevol that was never set raises AttributeError; the two columns
\* are added to the frame of output_colorevol itself, then the list is tested
RescaleGRB ==
    /\ pcR = "idle"
    /\ \E rd \in BOOLEAN : remove_duplicate' = rd
    /\ IF ~output_colorevol.set
       THEN /\ RaiseR("AttributeError")
            /\ UNCHANGED << output_colorevol, rr >>
       ELSE /\ output_colorevol' = [output_colorevol EXCEPT !.rescaled_columns = TRUE]
            /\ IF NoFiltersToRescale(output_colorevol)
               THEN RaiseR("ValueError") /\ UNCHANGED rr
               ELSE pcR' = "rows" /\ rr' = 1 /\ UNCHANGED errR
    /\ UNCHANGED << file, arrays, df, chosenfilter, magoverlapcheck, resc_mag_df >>
    /\ UNCHANGED << varsE, varsO, varsS >>

\* lines 138-166, one pass of the loop
RescaleRow ==
    /\ pcR = "rows"
    /\ LET row == output_colorevol.light[rr]
           moc == OverlapCheck(row, magoverlapcheck)
           out == RowOutcome(row, moc, output_colorevol)
           first == IF Unmatched(row) THEN PassThrough(row) ELSE row
       IN  /\ magoverlapcheck' = moc
           /\ IF out \in {"UnboundLocalError", "TypeError"}
              THEN /\ output_colorevol' = [output_colorevol EXCEPT !.light[rr] = first]
                   /\ RaiseR(out)
                   /\ UNCHANGED rr
              ELSE /\ output_colorevol' =
                         [output_colorevol EXCEPT
                            !.light[rr] = IF out = "rescale" THEN Rescaled(row)
                                          ELSE PassThrough(row)]
                   /\ rr' = rr + 1
                   /\ pcR' = IF rr = Len(output_colorevol.light) THEN "finish" ELSE "rows"
                   /\ UNCHANGED errR
    /\ UNCHANGED << file, arrays, df, chosenfilter, remove_duplicate, resc_mag_df >>
    /\ UNCHANGED << varsE, varsO, varsS >>

\* lines 168-268: the local `light` is rebound to what _duplicate_remover
\* returns; resc_mag_df is built from it and returned
RescaleReturn ==
    /\ pcR = "finish"
    /\ \E t \in IF remove_duplicate THEN DuplicateRemover(output_colorevol.light)
                ELSE { output_colorevol.light } :
          resc_mag_df' = RescMagDf(t)
    /\ pcR' = "done"
    /\ UNCHANGED << file, arrays, df, chosenfilter, output_colorevol, remove_duplicate, errR, rr,
                    magoverlapcheck >>
    /\ UNCHANGED << varsE, varsO, varsS >>

NextR ==
    \/ ColorevolGRB
    \/ RescaleGRB
    \/ RescaleRow
    \/ RescaleReturn

SpecRescale == InitR /\ [][NextR]_vars

\* the Lightcurve loaded from a file with aliases and mixed metadata
InitFrame ==
    /\ \E t \in UNION { [1..n -> FrameObs] : n \in 1..MaxObs } : Loaded(t)
    /\ chosenfilter = ""
    /\ output_colorevol = NoOutput
    /\ remove_duplicate = FALSE
    /\ pcR = "idle"
    /\ errR = ""
    /\ rr = 0
    /\ magoverlapcheck = << >>
    /\ resc_mag_df = << >>
    /\ IdleE
    /\ IdleO
    /\ IdleS

SpecFrame == InitFrame /\ [][NextR]_vars

\* light[column] = "" on a frame that has the column: every cell is blanked
BlankColumns(t) ==
    [k \in DOMAIN t |-> [t[k] EXCEPT !.mag_rescaled = << >>, !.mag_rescaled_err = << >>]]

\* Lightcurve.rescaleGRB called again, with the same argument, on the object
\* whose first call returned; resc_mag_df is still what the first call returned
RescaleAgain ==
    /\ pcR = "done"
    /\ output_colorevol' = [output_colorevol EXCEPT !.light = BlankColumns(@)]
    /\ magoverlapcheck' = << >>
    /\ pcR' = "rows"
    /\ rr' = 1
    /\ UNCHANGED << file, arrays, df, chosenfilter, remove_duplicate, errR, resc_mag_df >>
    /\ UNCHANGED << varsE, varsO, varsS >>

AgainObs == { Row(b, t, m, e, FirstMeta) :
                b \in {"R", "V"}, t \in {39, 40}, m \in Mags, e \in Errs }

InitAgain ==
    /\ \E t \in UNION { { t \in [1..n -> AgainObs] : SortedByTime(t) } : n \in 1..MaxObs } :
          Loaded(t)
    /\ chosenfilter = ""
    /\ output_colorevol = NoOutput
    /\ remove_duplicate = FALSE
    /\ pcR = "idle"
    /\ errR = ""
    /\ rr = 0
    /\ magoverlapcheck = << >>
    /\ resc_mag_df = << >>
    /\ IdleE
    /\ IdleO
    /\ IdleS

NextAgain ==
    \/ NextR
    \/ RescaleAgain

SpecAgain == InitAgain /\ [][NextAgain]_vars

\* Lightcurve.colorevolGRB called on an object that holds the output of an
\* earlier call, at rest or after a rescaleGRB that returned: the attribute is
\* assigned anew when _colorevolGRB returns, and left as it was when it raises
ColorevolAgain ==
    /\ pcR \in {"idle", "done"}
    /\ output_colorevol.set
    /\ \E cf \in ChosenFilters :
          LET a == Appx(df)
          IN  /\ chosenfilter' = cf
              /\ IF cf # "mostnumerous" /\ cf \notin BandsOf(a)
                 THEN RaiseR("UnknownBandError") /\ UNCHANGED output_colorevol
                 ELSE \E v \in Verdicts(a, FilterForRescaling(a, cf)) :
                         /\ output_colorevol' = ColorevolOutput(a, FilterForRescaling(a, cf), v)
                         /\ pcR' = "idle"
                         /\ UNCHANGED errR
    /\ rr' = 0
    /\ magoverlapcheck' = << >>
    /\ UNCHANGED << file, arrays, df, remove_duplicate, resc_mag_df >>
    /\ UNCHANGED << varsE, varsO, varsS >>

OrderObs == { Row(b, 40, m, e, FirstMeta) : b \in {"R", "V"}, m \in Mags, e \in Errs }

InitOrder ==
    /\ \E t \in UNION { [1..n -> OrderObs] : n \in 1..MaxObs } : Loaded(t)
    /\ chosenfilter = ""
    /\ output_colorevol = NoOutput
    /\ remove_duplicate = FALSE
    /\ pcR = "idle"
    /\ errR = ""
    /\ rr = 0
    /\ magoverlapcheck = << >>
    /\ resc_mag_df = << >>
    /\ IdleE
    /\ IdleO
    /\ IdleS

NextOrder ==
    \/ NextR
    \/ ColorevolAgain

\* colorevolGRB and rescaleGRB called in any order, any number of times
SpecOrder == InitOrder /\ [][NextOrder]_vars

\* magnitudes on either side of zero: with mag_err = 1 the intervals
\* mag +- mag_err of -1 and 1 touch at 0, those of -1 and 3 are disjoint
SignedMags == {-1, 1, 3}

OverlapObs == { Row(b, 40, m, e, FirstMeta) : b \in {"R", "V"}, m \in SignedMags, e \in Errs }

InitOverlap ==
    /\ \E t \in UNION { [1..n -> OverlapObs] : n \in 1..MaxObs } : Loaded(t)
    /\ chosenfilter = ""
    /\ output_colorevol = NoOutput
    /\ remove_duplicate = FALSE
    /\ pcR = "idle"
    /\ errR = ""
    /\ rr = 0
    /\ magoverlapcheck = << >>
    /\ resc_mag_df = << >>
    /\ IdleE
    /\ IdleO
    /\ IdleS

\* the Rescaler on magnitudes of either sign
SpecOverlap == InitOverlap /\ [][NextR]_vars

\* ------------------------------------------------ Lightcurve._set_data
OnlyLimiting == "AssertionError: Only limiting magnitudes present."

\* the rows read_data may give: sorted by time, detections (mag_err = 1) and
\* limiting magnitudes (mag_err = 0), flagged 'no' or 'yes'
RawObs == { FileRow(Row(b, t, 10, e, md)) :
              b \in {"R", "BJ"}, t \in {39, 40}, e \in {0, 1}, md \in Metas }

\* every row kept
DetectionsAll(t) == t

\* df[df['mag_err'] != 0]
Detections(t) == SelectSeq(t, LAMBDA r : r.mag_err # 0)

\* df[df.flag == 'no']
NotOutliers(t) == SelectSeq(t, LAMBDA r : r.flag = "no")

\* the object made with a path: nothing set yet, _set_data about to run
InitLoad ==
    /\ file \in UNION { { t \in [1..n -> RawObs] : SortedByTime(t) } : n \in 0..MaxObs }
    /\ arrays = NoArrays
    /\ df = << >>
    /\ chosenfilter = ""
    /\ output_colorevol = NoOutput
    /\ remove_duplicate = FALSE
    /\ pcR = "read"
    /\ errR = ""
    /\ rr = 0
    /\ magoverlapcheck = << >>
    /\ resc_mag_df = << >>
    /\ IdleE
    /\ IdleO
    /\ IdleS

\* _set_data with appx_bands = True (lines 103-152): the limiting magnitudes
\* are dropped, the attributes are filled from what is left, and self.df is
\* that, less the outliers when remove_outliers is set
SetData ==
    /\ pcR = "read"
    /\ \E remove_outliers \in BOOLEAN :
          LET kept == Detections(file)
              rows == [k \in DOMAIN kept |->
                         Row(kept[k].band, kept[k].time_sec, kept[k].mag,
                             kept[k].mag_err, kept[k])]
          IN  IF Len(kept) = 0
              THEN RaiseR(OnlyLimiting) /\ UNCHANGED << arrays, df >>
              ELSE /\ arrays' = ArraysOf(rows)
                   /\ df' = IF remove_outliers THEN NotOutliers(rows) ELSE rows
                   /\ pcR' = "idle"
                   /\ UNCHANGED errR
    /\ UNCHANGED << file, chosenfilter, output_colorevol, remove_duplicate, rr, magoverlapcheck,
                    resc_mag_df >>
    /\ UNCHANGED << varsE, varsO, varsS >>

SpecLoad == InitLoad /\ [][SetData]_vars

\* ------------------------------------------------ OutlierPlot
\* __init__ on a file of 1..MaxPts points, with no accepted or rejected file
\* from an earlier session
InitOutlier ==
    /\ numpts \in 1..MaxPts
    /\ accepted = {}
    /\ rejected = {}
    /\ queue = << >>
    /\ currpt = 0
    /\ prevpt = -1
    /\ saved = [accepted |-> {}, rejected |-> {}]
    /\ before = NoKey
    /\ IdleE
    /\ IdleR
    /\ IdleS

\* the point moved to the pile, the other pile left as it is
PopKeepOther(index, pile, other) == [pile |-> pile \cup {index}, other |-> other]

\* _pop: pile[index] = popped; del self._undo_[pilename][index], where
\* _undo_[pilename] is the other pile
Pop(index, pile, other) == [pile |-> pile \cup {index}, other |-> other \ {index}]

\* _insert: del pile[index] when index is in pile
Insert(index, pile) == pile \ {index}

\* _set_currpt
SetCurrpt(c) == c % numpts

\* _save: each pile written to its file, the file removed when the pile is empty
Save(acc, rej) == [accepted |-> acc, rejected |-> rej]

Entry(job) == [job |-> job, currpt |-> currpt, prevpt |-> prevpt]

Before(key) == [key |-> key, accepted |-> accepted, rejected |-> rejected]

\* update("f"): the entry queued, _inc
Forward ==
    /\ numpts > 0
    /\ Len(queue) < MaxQueue
    /\ queue' = Append(queue, Entry("f"))
    /\ prevpt' = currpt
    /\ currpt' = SetCurrpt(currpt + 1)
    /\ before' = Before("f")
    /\ UNCHANGED << numpts, accepted, rejected, saved >>
    /\ UNCHANGED << varsE, varsR, varsS >>

\* update("b"): the entry queued, _dec
Backward ==
    /\ numpts > 0
    /\ Len(queue) < MaxQueue
    /\ queue' = Append(queue, Entry("b"))
    /\ prevpt' = currpt
    /\ currpt' = SetCurrpt(currpt - 1)
    /\ before' = Before("b")
    /\ UNCHANGED << numpts, accepted, rejected, saved >>
    /\ UNCHANGED << varsE, varsR, varsS >>

\* update("a"): the entry queued, _accept, _save
Accept ==
    /\ numpts > 0
    /\ Len(queue) < MaxQueue
    /\ queue' = Append(queue, Entry("a"))
    /\ LET p == IF currpt \notin accepted THEN Pop(currpt, accepted, rejected)
                ELSE [pile |-> accepted, other |-> rejected]
       IN  /\ accepted' = p.pile
           /\ rejected' = p.other
           /\ saved' = Save(p.pile, p.other)
    /\ prevpt' = currpt
    /\ currpt' = SetCurrpt(currpt + 1)
    /\ before' = Before("a")
    /\ UNCHANGED numpts
    /\ UNCHANGED << varsE, varsR, varsS >>

\* update("r"): the entry queued, _reject, _save
Reject ==
    /\ numpts > 0
    /\ Len(queue) < MaxQueue
    /\ queue' = Append(queue, Entry("r"))
    /\ LET p == IF currpt \notin rejected THEN Pop(currpt, rejected, accepted)
                ELSE [pile |-> rejected, other |-> accepted]
       IN  /\ rejected' = p.pile
           /\ accepted' = p.other
           /\ saved' = Save(p.other, p.pile)
    /\ prevpt' = currpt
    /\ currpt' = SetCurrpt(currpt + 1)
    /\ before' = Before("r")
    /\ UNCHANGED numpts
    /\ UNCHANGED << varsE, varsR, varsS >>

\* update("u"): _undo, _save.  _undo pops the last entry; for "f" it calls
\* _dec and for "b" _inc; for "a" and "r" it takes self.prevpt out of the pile
\* and calls _dec; then self.prevpt is the entry's prevpt
Undo ==
    /\ numpts > 0
    /\ IF Len(queue) = 0
       THEN /\ saved' = Save(accepted, rejected)
            /\ UNCHANGED << queue, accepted, rejected, currpt, prevpt >>
       ELSE LET last == queue[Len(queue)]
                acc == IF last.job = "a" THEN Insert(prevpt, accepted) ELSE accepted
                rej == IF last.job = "r" THEN Insert(prevpt, rejected) ELSE rejected
            IN  /\ queue' = SubSeq(queue, 1, Len(queue) - 1)
                /\ accepted' = acc
                /\ rejected' = rej
                /\ currpt' = IF last.job = "b" THEN SetCurrpt(currpt + 1)
                             ELSE SetCurrpt(currpt - 1)
                /\ prevpt' = last.prevpt
                /\ saved' = Save(acc, rej)
    /\ before' = Before("u")
    /\ UNCHANGED numpts
    /\ UNCHANGED << varsE, varsR, varsS >>

\* update(key) for the keys f, b, a, r and u
NextOutlier ==
    \/ Forward
    \/ Backward
    \/ Accept
    \/ Reject
    \/ Undo

SpecOutlier == InitOutlier /\ [][NextOutlier]_vars

\* ------------------------------------------------ getArticles
\* how the retrieval of a paper ends: "failed" when a response is not ok or
\* no suitable link is found, "retrieved" when the body has come back
Outcomes == {"failed", "retrieved"}

\* None, among the items of a list; the body of paper i is i
None == 0

\* getArticle(articlelist, paper i): what it leaves in the list, whether it
\* raises, and what it returns.  A failed retrieval returns None (debug is
\* False).  After a retrieval the check of lines 265-272 calls
\* q.content.contains, which bytes does not have; the bare except then calls
\* q.text.contains, which str does not have: AttributeError leaves getArticle
\* and the append of lines 274-277 is not reached.
GetArticle(al, i) ==
    IF papers[i] = "failed"
    THEN [list |-> al, exc |-> "", value |-> None]
    ELSE [list |-> al, exc |-> "AttributeError", value |-> None]

\* the call of getArticles
InitSearch ==
    /\ papers \in UNION { [1..n -> Outcomes] : n \in 0..MaxPapers }
    /\ gcn \in BOOLEAN
    /\ threading \in BOOLEAN
    /\ articlelist = << >>
    /\ futures = << >>
    /\ comprehension = << >>
    /\ result = NoResult
    /\ pcS = "start"
    /\ errS = ""
    /\ IdleE
    /\ IdleR
    /\ IdleO

Min(a, b) == IF a <= b THEN a ELSE b

\* lines 26-38: no paper, the message is returned; else the executor is made
\* and map submits one task per paper, or the comprehension starts
GetArticles ==
    /\ pcS = "start"
    /\ IF Len(papers) = 0
       THEN /\ result' = [kind |-> "message", items |-> << >>]
            /\ pcS' = "returned"
            /\ UNCHANGED futures
       ELSE IF threading
       THEN /\ futures' = [i \in DOMAIN papers |-> "pending"]
            /\ pcS' = "map"
            /\ UNCHANGED result
       ELSE /\ pcS' = "loop"
            /\ UNCHANGED << futures, result >>
    /\ UNCHANGED << papers, gcn, threading, articlelist, comprehension, errS >>
    /\ UNCHANGED << varsE, varsR, varsO >>

\* a thread of the pool takes a task; there are min(30, len(papers)) threads
WorkerTakes ==
    /\ pcS = "map"
    /\ Cardinality({ i \in DOMAIN futures : futures[i] = "running" })
          < Min(MaxWorkers, Len(papers))
    /\ \E i \in DOMAIN futures :
          /\ futures[i] = "pending"
          /\ futures' = [futures EXCEPT ![i] = "running"]
    /\ UNCHANGED << papers, gcn, threading, articlelist, comprehension, result, pcS, errS >>
    /\ UNCHANGED << varsE, varsR, varsO >>

\* the task ends: getArticle has returned, or its exception is kept in the
\* future, which nothing reads (the iterator map returns is dropped)
WorkerEnds ==
    /\ pcS = "map"
    /\ \E i \in DOMAIN futures :
          /\ futures[i] = "running"
          /\ LET g == GetArticle(articlelist, i)
             IN  /\ articlelist' = g.list
                 /\ futures' = [futures EXCEPT
                                  ![i] = IF g.exc = "" THEN "returned" ELSE "raised"]
    /\ UNCHANGED << papers, gcn, threading, comprehension, result, pcS, errS >>
    /\ UNCHANGED << varsE, varsR, varsO >>

\* lines 36-37: shutdown, and the exit of the with block, wait for every task
Shutdown ==
    /\ pcS = "map"
    /\ \A i \in DOMAIN futures : futures[i] \in {"returned", "raised"}
    /\ pcS' = "join"
    /\ UNCHANGED << papers, gcn, threading, articlelist, futures, comprehension, result, errS >>
    /\ UNCHANGED << varsE, varsR, varsO >>

\* line 38, one paper of the comprehension: the value getArticle returns is
\* the item; an exception of getArticle leaves getArticles
Comprehend ==
    /\ pcS = "loop"
    /\ Len(comprehension) < Len(papers)
    /\ LET g == GetArticle(articlelist, Len(comprehension) + 1)
       IN  IF g.exc # ""
           THEN /\ pcS' = "error"
                /\ errS' = g.exc
                /\ UNCHANGED << articlelist, comprehension >>
           ELSE /\ comprehension' = Append(comprehension, g.value)
                /\ articlelist' = g.list
                /\ UNCHANGED << pcS, errS >>
    /\ UNCHANGED << papers, gcn, threading, futures, result >>
    /\ UNCHANGED << varsE, varsR, varsO >>

\* line 38, the assignment: articlelist is now the list of returned values
Rebind ==
    /\ pcS = "loop"
    /\ Len(comprehension) = Len(papers)
    /\ articlelist' = comprehension
    /\ pcS' = "join"
    /\ UNCHANGED << papers, gcn, threading, futures, comprehension, result, errS >>
    /\ UNCHANGED << varsE, varsR, varsO >>

\* lines 40-46: for GCN circulars the items are joined into one string, and
\* str.join raises TypeError on an item that is None; else the list is returned
Join ==
    /\ pcS = "join"
    /\ IF gcn /\ \E k \in DOMAIN articlelist : articlelist[k] = None
       THEN /\ pcS' = "error"
            /\ errS' = "TypeError"
            /\ UNCHANGED result
       ELSE /\ result' = [kind |-> IF gcn THEN "joined" ELSE "list", items |-> articlelist]
            /\ pcS' = "returned"
            /\ UNCHANGED errS
    /\ UNCHANGED << papers, gcn, threading, articlelist, futures, comprehension >>
    /\ UNCHANGED << varsE, varsR, varsO >>

NextSearch ==
    \/ GetArticles
    \/ WorkerTakes
    \/ WorkerEnds
    \/ Shutdown
    \/ Comprehend
    \/ Rebind
    \/ Join

SpecSearch == InitSearch /\ [][NextSearch]_vars

\* ------------------------------------------------------------- claims
NonReference == BandsOf(light) \ {rescale_filter}

Selected == rescale_filter # ""

RefRowOf(j, i) == RowsOf(light, rescale_filter)[timediff[j][i][1]]
SubRowOf(j, i) == RowsOf(light, scalingfactorslist[j].band)[timediff[j][i][2]]

Matched == timediff # << >>

\* C2: every sample the matcher produces from a reference point r and an
\* observation o has |t_r - t_o| / t_r <= 0.025 (times are positive).
C2_SamplesWithinThreshold ==
    Matched =>
        \A j \in DOMAIN scalingfactorslist :
            j >= 2 =>
                /\ Len(scalingfactorslist[j].sf) = Len(timediff[j])
                /\ \A i \in DOMAIN scalingfactorslist[j].sf :
                      /\ scalingfactorslist[j].sf[i] = Sf2(RefRowOf(j, i), SubRowOf(j, i))
                      /\ RefRowOf(j, i).time_sec > 0
                      /\ Abs(RefRowOf(j, i).time_sec - SubRowOf(j, i).time_sec) * 1000
                            <= RefRowOf(j, i).time_sec * 25

\* C2 witness: a sample of a non-reference band whose two times differ
C2_Witness ==
    /\ Matched
    /\ \E j \in DOMAIN scalingfactorslist :
          /\ j >= 2
          /\ scalingfactorslist[j].band # rescale_filter
          /\ \E i \in DOMAIN scalingfactorslist[j].sf :
                scalingfactorslist[j].sf[i].dist > 0

SamplesOf(b, t) ==
    { k \in DOMAIN finalevolutionlist :
        finalevolutionlist[k].band = b /\ finalevolutionlist[k].sf.time = t }

\* C3: after the de-duplication there is at most one sample for every
\* observation of every non-reference band.
C3_AtMostOneSample ==
    \A i \in DOMAIN light :
        light[i].band # rescale_filter =>
            /\ Cardinality(SamplesOf(light[i].band, light[i].time_sec)) <= 1
            /\ Cardinality({ k \in DOMAIN rescale_df :
                               /\ rescale_df[k].band = light[i].band
                               /\ rescale_df[k].time_sec = light[i].time_sec }) <= 1

\* C3 witness: de-duplication done for an observation that had several
\* reference points within the window
C3_Witness ==
    /\ pc = "frame"
    /\ \E j \in DOMAIN scalingfactorslist :
          /\ j >= 2
          /\ scalingfactorslist[j].band # rescale_filter
          /\ \E i, k \in DOMAIN scalingfactorslist[j].sf :
                /\ i # k
                /\ scalingfactorslist[j].sf[i].time = scalingfactorslist[j].sf[k].time
                /\ Cardinality(SamplesOf(scalingfactorslist[j].band,
                                         scalingfactorslist[j].sf[i].time)) = 1

\* the three-step rule for a fitted slope s with standard error e (hundredths)
RuleComment(s, e) ==
    IF Abs(s) < SlopeLimit THEN "no color evolution"
    ELSE IF e # << >> /\ s - (3 * e[1]) <= 0 /\ 0 <= s + (3 * e[1])
         THEN "no color evolution"
         ELSE "slope >= 0.1"

\* C4: a band on which a slope fit exists is classified by the three-step rule.
C4_ClassifiedByRule ==
    (linear_fit.band # "" /\ rescale_band = "numerous") =>
        rescale_slopes_df[linear_fit.band].comment
            = RuleComment(linear_fit.slope, linear_fit.stderr)

\* the regression loop has ended, by running out of bands or by an exception
RegressionEnded == pc = "rescale" \/ (pc = "error" /\ err \in {"TypeError", "KeyError"})

NSamples(b) == Len(SelectSeq(rescale_df, LAMBDA r : r.band = b))

\* C5, for the default reference band: a non-reference band with fewer than 3
\* samples ends the regression stage classified insufficient data.
C5_FewSamplesInsufficient ==
    (RegressionEnded /\ rescale_band = "numerous") =>
        \A b \in NonReference :
            NSamples(b) < MinFitPoints =>
                /\ b \in DOMAIN rescale_slopes_df
                /\ rescale_slopes_df[b].comment = "insufficient data"

\* C6, for the default reference band: at the end of the regression stage
\* every non-reference band of the table has exactly one of the three
\* classifications.
C6_EveryBandClassified ==
    (RegressionEnded /\ rescale_band = "numerous") =>
        \A b \in NonReference :
            /\ b \in DOMAIN rescale_slopes_df
            /\ rescale_slopes_df[b].comment
                  \in {"no color evolution", "slope >= 0.1", "insufficient data"}

\* ---- claims on _rescaleGRB
OcLight == output_colorevol.light

\* the rows the loop of _rescaleGRB has been through
Filled == { k \in DOMAIN OcLight :
              \/ pcR \in {"finish", "done"}
              \/ pcR = "rows" /\ k < rr }

Untouched(row) ==
    row.mag_rescaled = << row.mag >> /\ row.mag_rescaled_err = << row.mag_err >>

\* the row of the frame behind a returned row
Source(r) == OcLight[r.idx]

ReturnedUntouched(r) ==
    r.mag_rescaled = << Source(r).mag >> /\ r.mag_err = << Source(r).mag_err >>

\* C7: every observation of the reference band leaves with its original
\* magnitude and its original error.
C7_ReferencePassThrough ==
    /\ \A k \in Filled :
          OcLight[k].band_appx = output_colorevol.filterforrescaling
              => Untouched(OcLight[k])
    /\ pcR = "done" =>
          \A k \in DOMAIN resc_mag_df :
              Source(resc_mag_df[k]).band_appx = output_colorevol.filterforrescaling
                  => ReturnedUntouched(resc_mag_df[k])

\* C7 witness: a table returned with a reference-band row and a rescaled row
C7_Witness ==
    /\ pcR = "done"
    /\ \E k \in DOMAIN resc_mag_df :
          Source(resc_mag_df[k]).band_appx = output_colorevol.filterforrescaling
    /\ \E k \in DOMAIN resc_mag_df : ~ReturnedUntouched(resc_mag_df[k])

\* C8: an observation of a band that is not classified no colour evolution
\* (colour evolution, or insufficient data), or one with no rescaling factor,
\* leaves with its original magnitude and its original error.
C8_OnlyNoColorEvolutionRescaled ==
    /\ \A k \in Filled :
          (\/ OcLight[k].band_appx \notin output_colorevol.nocolorevolutionlist
           \/ OcLight[k].resc_fact = Dash)
              => Untouched(OcLight[k])
    /\ pcR = "done" =>
          \A k \in DOMAIN resc_mag_df :
              (\/ Source(resc_mag_df[k]).band_appx
                     \notin output_colorevol.nocolorevolutionlist
               \/ Source(resc_mag_df[k]).resc_fact = Dash)
                  => ReturnedUntouched(resc_mag_df[k])

\* the closed intervals mag +- mag_err of the row and of its matched
\* reference point share no point
Disjoint(row) ==
    \/ row.mag + row.mag_err < row.mag_chosenfilter[1] - row.mag_chosenfilter_err[1]
    \/ row.mag - row.mag_err > row.mag_chosenfilter[1] + row.mag_chosenfilter_err[1]

\* C8 witness: a returned row of a colour-evolution band that has a rescaling
\* factor and does not overlap its reference point, beside a rescaled row
C8_Witness ==
    /\ pcR = "done"
    /\ \E k \in DOMAIN resc_mag_df :
          /\ Source(resc_mag_df[k]).band_appx \in output_colorevol.colorevolutionlist
          /\ Source(resc_mag_df[k]).resc_fact # Dash
          /\ Disjoint(Source(resc_mag_df[k]))
    /\ \E k \in DOMAIN resc_mag_df : ~ReturnedUntouched(resc_mag_df[k])

\* the rows C9 is about
ToRescale(row) ==
    /\ row.band_appx \in output_colorevol.nocolorevolutionlist
    /\ row.band_appx # output_colorevol.filterforrescaling
    /\ row.mag_chosenfilter # Dash
    /\ row.mag_chosenfilter_err # Dash
    /\ row.resc_fact # Dash
    /\ Disjoint(row)

RowsAt(t) == { k \in DOMAIN OcLight : OcLight[k].time_sec = t }

\* those of them whose band has the highest occurrence count
TopAt(t) ==
    { k \in RowsAt(t) :
        \A l \in RowsAt(t) :
            OcLight[k].band_appx_occurrences >= OcLight[l].band_appx_occurrences }

Survivors(t) == { k \in DOMAIN resc_mag_df : resc_mag_df[k].time_sec = t }

C11_DistinctSortedComplete ==
    (pcR = "done" /\ remove_duplicate) =>
        /\ \A i, j \in DOMAIN resc_mag_df :
              i < j => resc_mag_df[i].time_sec < resc_mag_df[j].time_sec
        /\ { resc_mag_df[k].time_sec : k \in DOMAIN resc_mag_df }
              = { df[k].time_sec : k \in DOMAIN df }

\* C11 witness: duplicate removal dropped a row and left two times, the later
\* one of a band of higher count than the earlier one
C11_Witness ==
    /\ pcR = "done"
    /\ remove_duplicate
    /\ Len(resc_mag_df) = 2
    /\ Len(df) > 2
    /\ Source(resc_mag_df[2]).band_appx_occurrences
          > Source(resc_mag_df[1]).band_appx_occurrences

\* the columns of the returned table
Columns == {"idx", "time_sec", "mag_rescaled", "mag_err", "band_original",
            "system", "telescope", "extcorr", "source", "flag"}

\* C12: without duplicate removal, a rescale that succeeds returns one row per
\* input row, and each returned row keeps the input row's time_sec, original
\* band and system, telescope, extcorr, source and flag; the rescaled magnitude
\* and its error are the only other columns.
C12_RowsAndMetadataKept ==
    (pcR = "done" /\ ~remove_duplicate) =>
        /\ Len(resc_mag_df) = Len(df)
        /\ \A k \in DOMAIN resc_mag_df :
              /\ DOMAIN resc_mag_df[k] = Columns
              /\ resc_mag_df[k].time_sec = df[k].time_sec
              /\ resc_mag_df[k].band_original = df[k].band
              /\ resc_mag_df[k].system = df[k].system
              /\ resc_mag_df[k].telescope = df[k].telescope
              /\ resc_mag_df[k].extcorr = df[k].extcorr
              /\ resc_mag_df[k].source = df[k].source
              /\ resc_mag_df[k].flag = df[k].flag

\* C12 witness: a rescaled row of an alias band returned beside a row of
\* other metadata
C12_Witness ==
    /\ pcR = "done"
    /\ ~remove_duplicate
    /\ \E k, l \in DOMAIN resc_mag_df :
          /\ df[k].band # df[k].band_appx
          /\ ~ReturnedUntouched(resc_mag_df[k])
          /\ df[l].source # df[k].source

\* an explicit reference band that is not a band of the table
UnknownBand == rescale_band # "numerous" /\ rescale_band \notin BandsOf(light)

\* nothing of the matching, the regression or the rescaling has been done
NothingDone ==
    /\ occur = << >>
    /\ rescale_filter = ""
    /\ scalingfactorslist = << >>
    /\ timediff = << >>
    /\ finalevolutionlist = << >>
    /\ rescale_df = << >>
    /\ rescale_slopes_df = << >>

\* C13 (as amended): on a table of more than one observation, an explicit
\* reference band that does not occur in the table ends the run with the
\* band-not-present error before anything is matched, regressed or rescaled,
\* and no step changes the table.
C13_UnknownBandFailsFirst ==
    /\ [](( UnknownBand /\ Len(light) > 1 /\ pc # "start") =>
              (pc = "error" /\ err = BandNotPresent /\ NothingDone))
    /\ [][UnknownBand => light' = light]_vars

\* C13 witness: the run ended on the band-not-present error
C13_Witness ==
    /\ UnknownBand
    /\ Len(light) > 1
    /\ pc = "error"
    /\ err = BandNotPresent

\* C13 as stated: whatever the table, an explicit reference band that does not
\* occur in it ends the run with the band-not-present error.
C13_UnknownBandAlwaysReported ==
    (UnknownBand /\ pc # "start") =>
        (pc = "error" /\ err = BandNotPresent /\ NothingDone)

\* _rescaleGRB has been entered on the output of colorevolGRB
Entered == output_colorevol.set /\ pcR # "idle"

\* the bands of the frame other than the reference band
OtherBands ==
    { OcLight[k].band_appx : k \in DOMAIN OcLight } \ {output_colorevol.filterforrescaling}

\* C14: the Rescaler ends with "No filters to rescale." exactly when no
\* non-reference band is classified no colour evolution; with one such band
\* or more it does not raise that error.
C14_ValueErrorIffNothingToRescale ==
    Entered =>
        (errR = "ValueError"
            <=> \A b \in OtherBands : b \notin output_colorevol.nocolorevolutionlist)

\* C14 witness: the error raised on a table with a colour-evolution band and a
\* band in neither list
C14_Witness ==
    /\ Entered
    /\ errR = "ValueError"
    /\ \E b \in OtherBands : b \in output_colorevol.colorevolutionlist
    /\ \E b \in OtherBands : b \notin output_colorevol.colorevolutionlist

\* C15: when the Rescaler ends with "No filters to rescale.", no rescaled
\* table is returned and the frame handed to it is as it was before the call:
\* no column added, no value changed.
C15_FailureLeavesFrameUntouched ==
    (Entered /\ errR = "ValueError") =>
        /\ resc_mag_df = << >>
        /\ ~output_colorevol.rescaled_columns
        /\ \A k \in DOMAIN OcLight :
              OcLight[k].mag_rescaled = << >> /\ OcLight[k].mag_rescaled_err = << >>

\* every observation of the table is of one band
SingleBand == Cardinality(BandsOf(light)) = 1

\* C16: rescaling a table whose observations are all of the reference band
\* completes, returning every row with its original magnitude and error; the
\* run does not end on an error.
C16_ReferenceOnlyIsNoOp ==
    (SingleBand /\ ~UnknownBand /\ Len(light) > 1) => pc # "error"

\* C17: on a table of one observation, or of observations of a single band,
\* the run (with the default reference band or one of the table) ends with
\* the insufficient-data error, the only-one-data-point assertion, and never
\* proceeds to matching.
C17_TooLittleDataFails ==
    ((Len(light) <= 1 \/ SingleBand) /\ ~UnknownBand /\ pc # "start") =>
        (pc = "error" /\ err = OnlyOnePoint /\ NothingDone)

\* the matching loop has run
MatcherRan == pc \notin {"start", "match"} /\ rescale_filter # ""

\* C18: when a reference-band observation of time_sec <= 0 reaches the
\* matcher, to be paired with the observations of another band, the run ends
\* with the invalid-observation error; no pair with such a reference time is
\* silently admitted or silently dropped.
C18_NonPositiveTimeRejected ==
    (/\ MatcherRan
     /\ \E k, l \in DOMAIN light :
           /\ light[k].band = rescale_filter
           /\ light[k].time_sec <= 0
           /\ light[l].band # rescale_filter) =>
        (pc = "error" /\ err = "InvalidObservationError")

\* what _rescaleGRB reads of a row
InputColumns(row) == [row EXCEPT !.mag_rescaled = << >>, !.mag_rescaled_err = << >>]

\* the frame and the lists handed to _rescaleGRB are left as they were
FrameKept ==
    /\ Len(output_colorevol'.light) = Len(OcLight)
    /\ \A k \in DOMAIN OcLight :
          InputColumns(output_colorevol'.light[k]) = InputColumns(OcLight[k])
    /\ output_colorevol'.filterforrescaling = output_colorevol.filterforrescaling
    /\ output_colorevol'.nocolorevolutionlist = output_colorevol.nocolorevolutionlist
    /\ output_colorevol'.colorevolutionlist = output_colorevol.colorevolutionlist

C20_NoLimitingMagnitudeLoaded ==
    /\ pcR = "idle" =>
          /\ \A k \in DOMAIN df : df[k].mag_err # 0
          /\ \A k \in DOMAIN arrays.yerr : arrays.yerr[k] # 0
    /\ (pcR # "read" /\ \A k \in DOMAIN file : file[k].mag_err = 0) =>
          (pcR = "error" /\ errR = OnlyLimiting)

\* C20 witness: a file with a limiting magnitude loaded, the row dropped
C20_Witness ==
    /\ pcR = "idle"
    /\ \E k \in DOMAIN file : file[k].mag_err = 0
    /\ Len(arrays.yerr) < Len(file)
    /\ Len(df) > 0

\* C21: a fit that yields no slope error on a band does not end the run: the
\* band is classified insufficient data and the run goes on to the other bands.
C21_FitFailureIsLocal ==
    (linear_fit.band # "" /\ linear_fit.stderr = << >>) =>
        /\ pc # "error"
        /\ rescale_slopes_df[linear_fit.band].comment = "insufficient data"

\* the stored output is what _colorevolGRB gives for the table of the object
\* and the argument of the last call
LatestOutput ==
    LET a == Appx(df)
        ref == FilterForRescaling(a, chosenfilter)
    IN  /\ output_colorevol.filterforrescaling = ref
        /\ \E v \in Verdicts(a, ref) :
              /\ output_colorevol.nocolorevolutionlist
                    = { b \in DOMAIN v : v[b].class = "no_color_evolution" }
              /\ output_colorevol.colorevolutionlist
                    = { b \in DOMAIN v : v[b].class = "color_evolution" }
              /\ Len(OcLight) = Len(a)
              /\ \A k \in DOMAIN OcLight :
                    InputColumns(OcLight[k]) = InputColumns(ColorevolLight(a, ref, v)[k])

Deduped == pc \notin {"start", "match", "dedupe"} /\ finalevolutionlist # << >>

\* row k is the only observation of its band at its time
OnlyAtItsTime(k) ==
    \A l \in DOMAIN light :
        (light[l].band = light[k].band /\ light[l].time_sec = light[k].time_sec) => l = k

\* C23, for the default reference band: for a non-reference observation o with
\* admitted reference points, the retained sample is the one built from the
\* reference point of minimum |t_r - t_o| / t_r, the first encountered among
\* those that attain the minimum.
C23_MinFractionRetained ==
    (Deduped /\ rescale_band = "numerous") =>
        \A k \in DOMAIN light :
            (/\ HasMatch(light, rescale_filter, k)
             /\ OnlyAtItsTime(k)) =>
                \A e \in DOMAIN finalevolutionlist :
                    (/\ finalevolutionlist[e].band = light[k].band
                     /\ finalevolutionlist[e].sf.time = light[k].time_sec) =>
                        finalevolutionlist[e].sf
                            = Sf2(light[MatchedRef(light, rescale_filter, k)], light[k])

\* C24: whatever the reference band, the most numerous one or one the caller
\* names, the matcher compares no band with itself, and every other band with
\* an observation within 2.5% of a reference point gets a sample.
C24_EveryOtherBandMatched ==
    Matched =>
        /\ \A j \in DOMAIN scalingfactorslist :
              j >= 2 => scalingfactorslist[j].band # rescale_filter
        /\ \A b \in NonReference :
              (\E k \in DOMAIN light : light[k].band = b /\ HasMatch(light, rescale_filter, k))
                  => \E j \in DOMAIN scalingfactorslist :
                        /\ scalingfactorslist[j].band = b
                        /\ scalingfactorslist[j].sf # << >>

\* the row the loop of _rescaleGRB went through last, 0 when none
LastRow ==
    IF pcR = "rows" THEN rr - 1
    ELSE IF pcR \in {"finish", "done"} THEN Len(OcLight)
    ELSE 0

\* C25: the overlap value computed for a row is non-zero exactly when the
\* closed intervals mag +- mag_err of the row and of its matched reference
\* point share a point (touching at an endpoint included, bounds of any
\* sign), and 0 exactly when they are strictly disjoint.
C25_OverlapIsClosedIntervalTest ==
    (LastRow > 0 /\ ~Unmatched(OcLight[LastRow])) =>
        /\ magoverlapcheck # << >>
        /\ magoverlapcheck[1] # 0 <=> ~Disjoint(OcLight[LastRow])

\* the branch for a row decided from the row's own cells alone
OwnDecision(row) ==
    IF Unmatched(row) THEN "pass"
    ELSE IF \/ row.band_appx = output_colorevol.filterforrescaling
            \/ row.resc_fact = Dash
            \/ Overlap(row.mag - row.mag_err, row.mag + row.mag_err,
                       row.mag_chosenfilter[1] - row.mag_chosenfilter_err[1],
                       row.mag_chosenfilter[1] + row.mag_chosenfilter_err[1]) # 0
            \/ row.band_appx \in output_colorevol.colorevolutionlist
         THEN "pass"
    ELSE IF /\ WithinWindow(row.time_difference_percentage)
            /\ row.band_appx \in output_colorevol.nocolorevolutionlist
         THEN "rescale"
         ELSE "pass"

PointArrays == {"xdata", "ydata", "yerr", "band", "system", "telescope", "extcorr", "source"}

\* C27: after _set_data, with or without remove_outliers, each per-point array
\* of the object is as long as the stored table and holds, position by
\* position, the values of the table's rows.
C27_ArraysMatchTable ==
    pcR = "idle" =>
        /\ \A a \in PointArrays : Len(arrays[a]) = Len(df)
        /\ \A k \in DOMAIN df :
              /\ arrays.xdata[k] = df[k].time_sec
              /\ arrays.ydata[k] = df[k].mag
              /\ arrays.yerr[k] = df[k].mag_err
              /\ arrays.band[k] = df[k].band_appx
              /\ arrays.system[k] = df[k].system
              /\ arrays.telescope[k] = df[k].telescope
              /\ arrays.extcorr[k] = df[k].extcorr
              /\ arrays.source[k] = df[k].source

\* ---- claims on OutlierPlot
\* the step queues an entry for the key job
Queued(job) ==
    /\ Len(queue') = Len(queue) + 1
    /\ queue'[Len(queue')].job = job

\* C28: from empty piles, after any sequence of the keys f, b, a, r, u no
\* point is in both the accepted and the rejected pile; accepting a point
\* puts it in accepted and takes it out of rejected, and rejecting a point
\* puts it in rejected and takes it out of accepted.
C28_PilesDisjoint ==
    /\ [](accepted \cap rejected = {})
    /\ [][Queued("a") => (currpt \in accepted' /\ currpt \notin rejected')]_vars
    /\ [][Queued("r") => (currpt \in rejected' /\ currpt \notin accepted')]_vars

\* C28 witness: a point that was rejected has since been accepted
C28_Witness ==
    \E i, j \in DOMAIN queue :
        /\ i < j
        /\ queue[i].job = "r"
        /\ queue[j].job = "a"
        /\ queue[i].currpt = queue[j].currpt
        /\ queue[j].currpt \in accepted
        /\ queue[j].currpt \notin rejected

\* the step is an undo that follows one of the keys f, b, a, r
UndoOfLastKey ==
    /\ Len(queue') = Len(queue) - 1
    /\ before.key \in {"f", "b", "a", "r"}

\* C29: u after one of f, b, a, r puts currpt, prevpt and the two piles back
\* to what they were before that key, whether or not the point was in a pile
\* already; u on an empty queue changes none of them.
C29_UndoRestores ==
    /\ [][UndoOfLastKey =>
            /\ currpt' = queue[Len(queue)].currpt
            /\ prevpt' = queue[Len(queue)].prevpt
            /\ accepted' = before.accepted
            /\ rejected' = before.rejected]_vars
    /\ [][(queue = << >> /\ queue' = << >>) =>
            UNCHANGED << currpt, prevpt, accepted, rejected >>]_vars

\* ---- claims on getArticles
\* the papers whose retrieval succeeded
Retrieved == { i \in DOMAIN papers : papers[i] = "retrieved" }

\* C30: with threads or without, getArticles returns, and what it returns
\* holds the body of every paper that was retrieved, once, and nothing for a
\* paper whose retrieval failed; with threads, every worker has finished by
\* then.
C30_SameBodiesEitherWay ==
    (Len(papers) > 0 /\ pcS \in {"returned", "error"}) =>
        /\ pcS = "returned"
        /\ { result.items[k] : k \in DOMAIN result.items } = Retrieved
        /\ Len(result.items) = Cardinality(Retrieved)
        /\ \A i \in DOMAIN futures : futures[i] \in {"returned", "raised"}

====
